---- MODULE Spec2Model ----
(***************************************************************************)
(* Model of operators/io_import_laz.py: the IMPORTLAZ_OT_georaster         *)
(* operator (execute, scaled_dimension, assign_geometry_node,              *)
(* new_pointcloud_material, new_pointcloud_geometry_node_group).           *)
(*                                                                         *)
(* Numbers are exact extended rationals [n, d]: d > 0 is the rational n/d  *)
(* in lowest terms, d = 0 is one of the IEEE specials (n = 0: NaN,         *)
(* n = 1: +Inf, n = -1: -Inf) that numpy produces on a division by zero.   *)
(* Rounding of float64 is not modelled.                                    *)
(***************************************************************************)
EXTENDS Integers, Sequences, FiniteSets, TLC

----------------------------------------------------------------------------
(* float arithmetic as numpy performs it (no exception on x/0)              *)

Abs(i) == IF i < 0 THEN -i ELSE i

Sign(i) == IF i < 0 THEN -1 ELSE IF i > 0 THEN 1 ELSE 0

RECURSIVE GCD(_, _)
GCD(a, b) == IF b = 0 THEN a ELSE GCD(b, a % b)

Q(n, d) ==
    IF d = 0 THEN [n |-> Sign(n), d |-> 0]
    ELSE LET g == GCD(Abs(n), Abs(d))
         IN  [n |-> (Sign(d) * n) \div g, d |-> Abs(d) \div g]

Num(i) == [n |-> i, d |-> 1]

NaN == [n |-> 0, d |-> 0]

IsFinite(a) == a.d # 0

FAdd(a, b) ==
    IF a.d = 0 /\ b.d = 0
    THEN (IF a.n = b.n THEN a ELSE NaN)
    ELSE Q(a.n * b.d + b.n * a.d, a.d * b.d)

FNeg(a) == [n |-> -a.n, d |-> a.d]

FSub(a, b) == FAdd(a, FNeg(b))

FMul(a, b) == Q(a.n * b.n, a.d * b.d)

FRecip(b) == IF b.n = 0 THEN [n |-> b.d, d |-> 0] ELSE Q(b.d, b.n)

FDiv(a, b) == FMul(a, FRecip(b))

(* numpy broadcasting over the three columns x, y, z *)
V(x, y, z) == <<Num(x), Num(y), Num(z)>>

VAdd(u, v) == [k \in 1..3 |-> FAdd(u[k], v[k])]

VSub(u, v) == [k \in 1..3 |-> FSub(u[k], v[k])]

VMul(u, v) == [k \in 1..3 |-> FMul(u[k], v[k])]

VDiv(u, v) == [k \in 1..3 |-> FDiv(u[k], v[k])]

VScale(u, s) == [k \in 1..3 |-> FMul(u[k], s)]

VDivS(u, s) == [k \in 1..3 |-> FDiv(u[k], s)]

RECURSIVE VSum(_)
VSum(s) == IF s = <<>> THEN V(0, 0, 0) ELSE VAdd(Head(s), VSum(Tail(s)))

----------------------------------------------------------------------------
(* bounds of the model                                                      *)

MaxFiles == 2

MaxRuns == 2

MaxObjects == 4

----------------------------------------------------------------------------
(* the external libraries: pyproj and laspy                                 *)

None == 0

CRSError == -1

(* pyproj.CRS.from_string: the identifier strings the CRS database knows *)
from_string(s) ==
    CASE s = "EPSG:4326" -> 4326
      [] s = "EPSG:3857" -> 3857
      [] OTHER -> CRSError

crs_name(c) ==
    CASE c = 4326 -> "WGS 84"
      [] c = 3857 -> "WGS 84 / Pseudo-Mercator"
      [] OTHER -> ""

(* las_file.header.parse_crs(): None without CRS records, CRSError when *)
(* the records do not describe a CRS                                     *)
parse_crs(header) == IF header.crs = "" THEN None ELSE from_string(header.crs)

(* origin of each CRS's planar frame, in units of a common frame; the   *)
(* transformer is the change of frame, the identity when source = target *)
FalseOrigin(c) == IF c = 3857 THEN <<100, -50>> ELSE <<0, 0>>

Transformer_from_crs(source_crs, target_crs) ==
    [dx |-> FalseOrigin(source_crs)[1] - FalseOrigin(target_crs)[1],
     dy |-> FalseOrigin(source_crs)[2] - FalseOrigin(target_crs)[2]]

transform(projecter, x, y) ==
    <<FAdd(x, Num(projecter.dx)), FAdd(y, Num(projecter.dy))>>

----------------------------------------------------------------------------
(* the inputs: files the user can select, operator properties               *)

(* header CRS records: "" is a file without any, "garbage" records that *)
(* do not describe a CRS                                                 *)
File(crs, lo, hi, xyz) ==
    [readable |-> TRUE, crs |-> crs, min |-> lo, max |-> hi, xyz |-> xyz]

Unreadable ==
    [readable |-> FALSE, crs |-> "", min |-> V(0, 0, 0), max |-> V(0, 0, 0), xyz |-> <<>>]

(* two adjacent flat tiles (the first with a point off the header's plane), *)
(* a tile with extent on every axis and a point outside the header's box,   *)
(* with and without usable CRS records, and a single-point file             *)
Files ==
    { Unreadable,
      File("EPSG:4326", V(0, 0, 0),  V(10, 10, 0), <<V(1, 2, 0), V(3, 4, 1)>>),
      File("EPSG:4326", V(10, 0, 0), V(20, 10, 0), <<V(12, 5, 0)>>),
      File("EPSG:4326", V(0, 0, 0),  V(4, 2, 6),   <<V(1, 1, 1), V(4, 2, 6), V(5, 0, 3)>>),
      File("",          V(0, 0, 0),  V(4, 2, 6),   <<V(1, 1, 1), V(4, 2, 6), V(5, 0, 3)>>),
      File("garbage",   V(3, 3, 3),  V(3, 3, 3),   <<V(3, 3, 3)>>) }

Batches == UNION { [1..n -> Files] : n \in 0..MaxFiles }

PredefCRS == {"EPSG:4326", "EPSG:3857"}

FallbackChoices == {"EPSG:3857", "NOT_A_CRS"}

Scales == {Num(0), Num(1), Num(2)}

----------------------------------------------------------------------------
(* state                                                                    *)

VARIABLES
    geoscn,         \* GeoScene(scn): crs ("" when unset), origin (<<>> when unset)
    objects,        \* bpy.data.objects, in creation order
    node_groups,    \* bpy.data.node_groups, in creation order
    materials,      \* bpy.data.materials: names
    meshes,         \* number of mesh datablocks in bpy.data.meshes
    op,             \* the operator's properties for the current run
    pc,             \* position in execute: "idle", "loop", "done"
    idx,            \* position of the for loop over self.files
    parent_obj,     \* index in objects of this run's parent empty (0: none)
    midpoint_list,
    objs,           \* execute's local list `objects`: indices into objects
    frame,          \* locals of the last loop iteration of execute
    reports,        \* self.report calls of the current run
    result,         \* "RUNNING", "FINISHED", "CANCELLED", "EXCEPTION"
    exc,            \* the exception that left execute, "" if none
    runs,           \* number of operator runs started
    before          \* Len(objects) when the current run started

vars == <<geoscn, objects, node_groups, materials, meshes, op, pc, idx, parent_obj,
          midpoint_list, objs, frame, reports, result, exc, runs, before>>

NoFrame ==
    [valid |-> FALSE, las |-> Unreadable, xyz |-> <<>>, coords |-> <<>>,
     source_crs |-> None, is_fallback |-> FALSE, projecter |-> [dx |-> 0, dy |-> 0],
     reports |-> <<>>, verts |-> <<>>, min_coords |-> <<>>, max_coords |-> <<>>,
     midpoint |-> <<>>, delta_coords |-> <<>>, final |-> <<>>]

(* the operator's properties as set in the file browser's panel; Blender *)
(* keeps them from one run to the next                                   *)
Properties ==
    { [files |-> <<>>, fallbackCRS |-> f, import_scale |-> s, rastCRS |-> r] :
        f \in FallbackChoices, s \in Scales, r \in PredefCRS }

Init ==
    /\ geoscn = [crs |-> "", origin |-> <<>>]
    /\ objects = <<>>
    /\ node_groups = <<>>
    /\ materials = {}
    /\ meshes = 0
    /\ op \in Properties
    /\ pc = "idle"
    /\ idx = 0
    /\ parent_obj = 0
    /\ midpoint_list = <<>>
    /\ objs = <<>>
    /\ frame = NoFrame
    /\ reports = <<>>
    /\ result = "FINISHED"
    /\ exc = ""
    /\ runs = 0
    /\ before = 0

----------------------------------------------------------------------------
(* scaled_dimension: CRS resolution and reprojection of one file            *)

FallbackReport(fallbackCRS) ==
    [type |-> "ERROR",
     message |-> "Source CRS was not detected, assingning Fallback CRS ",
     arg |-> fallbackCRS]

(* resolve_source_crs without line 516 (is_fallback = True) *)
resolve_source_crs_FlagNotSet(las_file, fallbackCRS) ==
    LET parsed   == parse_crs(las_file)
        embedded == IF parsed = CRSError THEN None ELSE parsed
    IN  IF embedded = None
        THEN [source_crs  |-> from_string(fallbackCRS),
              is_fallback |-> FALSE,
              reports     |-> <<FallbackReport(fallbackCRS)>>]
        ELSE [source_crs |-> embedded, is_fallback |-> FALSE, reports |-> <<>>]

(* lines 507-516: the embedded CRS, else the fallback; source_crs is     *)
(* CRSError when pyproj.CRS.from_string(fallbackCRS) raises               *)
resolve_source_crs(las_file, fallbackCRS) ==
    LET parsed   == parse_crs(las_file)
        embedded == IF parsed = CRSError THEN None ELSE parsed
    IN  IF embedded = None
        THEN [source_crs  |-> from_string(fallbackCRS),
              is_fallback |-> TRUE,
              reports     |-> <<FallbackReport(fallbackCRS)>>]
        ELSE [source_crs |-> embedded, is_fallback |-> FALSE, reports |-> <<>>]

(* reproject with the header corners left in the source CRS *)
reproject_CornersUntransformed(las_file, projecter) ==
    LET tr(p) == LET xy == transform(projecter, p[1], p[2])
                 IN  <<xy[1], xy[2], p[3]>>
    IN  [xyz    |-> [i \in 1..Len(las_file.xyz) |-> tr(las_file.xyz[i])],
         coords |-> <<las_file.min, las_file.max>>]

(* lines 520-535: x, y of the points and of the header corners go through *)
(* the projecter, z is copied                                             *)
reproject(las_file, projecter) ==
    LET tr(p) == LET xy == transform(projecter, p[1], p[2])
                 IN  <<xy[1], xy[2], p[3]>>
    IN  [xyz    |-> [i \in 1..Len(las_file.xyz) |-> tr(las_file.xyz[i])],
         coords |-> <<tr(las_file.min), tr(las_file.max)>>]

scaled_dimension(las_file, targetCRS, fallbackCRS) ==
    LET target_crs == from_string(IF targetCRS = "" THEN "EPSG:3857" ELSE targetCRS)
        src        == resolve_source_crs(las_file, fallbackCRS)
        projecter  == Transformer_from_crs(src.source_crs, target_crs)
        out        == reproject(las_file, projecter)
    IN  IF target_crs = CRSError
        THEN [raised |-> TRUE, reports |-> <<>>, xyz |-> <<>>, coords |-> <<>>,
              source_crs |-> None, is_fallback |-> FALSE, projecter |-> projecter]
        ELSE IF src.source_crs = CRSError
        THEN [raised |-> TRUE, reports |-> src.reports, xyz |-> <<>>, coords |-> <<>>,
              source_crs |-> None, is_fallback |-> FALSE, projecter |-> projecter]
        ELSE [raised |-> FALSE, reports |-> src.reports,
              xyz |-> out.xyz, coords |-> out.coords,
              source_crs |-> src.source_crs, is_fallback |-> src.is_fallback,
              projecter |-> projecter]

----------------------------------------------------------------------------
(* the shared visualisation node group                                      *)

node_group_name == "Point Cloud Visualisation Node"

material_id == "M_PointCloud"

(* new_pointcloud_material: what the call returns ("" is Python's None) *)
(* and the materials afterwards                                          *)
new_pointcloud_material(mats) ==
    IF material_id \in mats
    THEN [ret |-> material_id, materials |-> mats]
    ELSE [ret |-> "", materials |-> mats \cup {material_id}]

(* bpy.data.node_groups.new keeps names unique with a numeric suffix *)
new_pointcloud_geometry_node_group(groups, material_pointcloud) ==
    LET taken == { i \in 1..Len(groups) : groups[i].name = node_group_name }
    IN  Append(groups, [name |-> node_group_name,
                        suffix |-> Cardinality(taken),
                        set_material |-> material_pointcloud])

GroupNamed(groups, name) ==
    { i \in 1..Len(groups) : groups[i].name = name /\ groups[i].suffix = 0 }

(* assign_geometry_node without the lookup of an existing group *)
assign_geometry_node_AlwaysNew(groups, mats) ==
    LET m == new_pointcloud_material(mats)
        g == new_pointcloud_geometry_node_group(groups, m.ret)
    IN  [node_groups |-> g, materials |-> m.materials,
         modifier |-> [name |-> node_group_name, node_group |-> Len(g)]]

(* assign_geometry_node: the node groups and materials afterwards and the *)
(* modifier added to the object                                           *)
assign_geometry_node(groups, mats) ==
    IF GroupNamed(groups, node_group_name) # {}
    THEN [node_groups |-> groups, materials |-> mats,
          modifier |-> [name |-> node_group_name,
                        node_group |-> CHOOSE i \in GroupNamed(groups, node_group_name) : TRUE]]
    ELSE LET m == new_pointcloud_material(mats)
             g == new_pointcloud_geometry_node_group(groups, m.ret)
         IN  [node_groups |-> g, materials |-> m.materials,
              modifier |-> [name |-> node_group_name, node_group |-> Len(g)]]

----------------------------------------------------------------------------
(* scale and centre, lines 288-295                                          *)

(* Midpoint without the factor 0.5 *)
Midpoint_NoHalf(min_coords, max_coords) ==
    VAdd(min_coords, VSub(max_coords, min_coords))

Midpoint(min_coords, max_coords) ==
    VAdd(min_coords, VScale(VSub(max_coords, min_coords), Q(1, 2)))

(* Centre normalising from the min corner instead of the box centre *)
Centre_FromMin(vert, min_coords, delta_coords) ==
    LET half       == VDivS(delta_coords, Num(2))
        normalised == VDiv(VSub(vert, min_coords), half)
    IN  VDivS(VMul(normalised, delta_coords), Num(2))

(* (verts - min - delta/2) / (delta/2), then normalised * delta / 2 *)
Centre(vert, min_coords, delta_coords) ==
    LET half       == VDivS(delta_coords, Num(2))
        normalised == VDiv(VSub(VSub(vert, min_coords), half), half)
    IN  VDivS(VMul(normalised, delta_coords), Num(2))

(* np_mean with an empty list defaulting to the origin *)
np_mean_EmptyIsOrigin(list) ==
    IF list = <<>>
    THEN [ndim |-> 1, value |-> V(0, 0, 0)]
    ELSE [ndim |-> 1, value |-> VDivS(VSum(list), Num(Len(list)))]

(* np.mean(midpoint_list, axis=0): of an empty list it is the scalar nan *)
np_mean(list) ==
    IF list = <<>>
    THEN [ndim |-> 0, value |-> <<NaN>>]
    ELSE [ndim |-> 1, value |-> VDivS(VSum(list), Num(Len(list)))]

----------------------------------------------------------------------------
(* execute                                                                  *)

NewObject(type, data) ==
    [type |-> type, data |-> data, location |-> V(0, 0, 0), keys |-> {},
     laz_midpoint |-> <<>>, source_crs |-> "", is_fallback |-> FALSE,
     import_scale |-> Num(0), modifiers |-> <<>>, parent |-> 0,
     parent_inverse |-> V(0, 0, 0), linked |-> TRUE, run |-> runs]

isGeoref == geoscn.crs # "" /\ geoscn.origin # <<>>

(* lines 224-270: scene CRS, the parent empty, the loop's accumulators *)
execute_begin(files) ==
    /\ pc \in {"idle", "done"}
    /\ runs < MaxRuns
    /\ Len(objects) + 1 + Len(files) <= MaxObjects
    /\ runs' = runs + 1
    /\ before' = Len(objects)
    /\ op' = [op EXCEPT !.files = files]
    /\ geoscn' = IF isGeoref THEN geoscn ELSE [geoscn EXCEPT !.crs = op.rastCRS]
    /\ objects' = Append(objects, [NewObject("EMPTY", <<>>) EXCEPT !.run = runs + 1])
    /\ parent_obj' = Len(objects) + 1
    /\ midpoint_list' = <<>>
    /\ objs' = <<>>
    /\ idx' = 1
    /\ frame' = NoFrame
    /\ reports' = <<>>
    /\ result' = "RUNNING"
    /\ exc' = ""
    /\ pc' = "loop"
    /\ UNCHANGED <<node_groups, materials, meshes>>

(* lines 272-316: one iteration of the loop over self.files *)
import_file ==
    /\ pc = "loop"
    /\ idx <= Len(op.files)
    /\ LET las == op.files[idx]
           sd  == scaled_dimension(las, geoscn.crs, op.fallbackCRS)
           verts        == [i \in 1..Len(sd.xyz) |-> VScale(sd.xyz[i], op.import_scale)]
           min_coords   == VScale(sd.coords[1], op.import_scale)
           max_coords   == VScale(sd.coords[2], op.import_scale)
           midpoint     == Midpoint(min_coords, max_coords)
           delta_coords == VSub(max_coords, min_coords)
           coords       == [i \in 1..Len(verts) |-> Centre(verts[i], min_coords, delta_coords)]
           agn          == assign_geometry_node(node_groups, materials)
           obj          == [NewObject("MESH", coords) EXCEPT
                               !.location = midpoint,
                               !.keys = {"laz_midpoint", "source_crs", "is_fallback", "import_scale"},
                               !.laz_midpoint = midpoint,
                               !.source_crs = crs_name(sd.source_crs),
                               !.is_fallback = sd.is_fallback,
                               !.import_scale = op.import_scale,
                               !.modifiers = <<agn.modifier>>]
       IN  IF ~las.readable
           THEN \* laspy.read raises IOError: report and return {'CANCELLED'}
                /\ reports' = Append(reports, [type |-> "ERROR",
                                  message |-> "Unable to open raster, check logs for more infos",
                                  arg |-> ""])
                /\ result' = "CANCELLED"
                /\ pc' = "done"
                /\ UNCHANGED <<objects, node_groups, materials, meshes, idx,
                               midpoint_list, objs, frame, exc>>
           ELSE IF sd.raised
           THEN \* pyproj's CRSError leaves scaled_dimension and execute
                /\ meshes' = meshes + 1
                /\ reports' = reports \o sd.reports
                /\ result' = "EXCEPTION"
                /\ exc' = "CRSError"
                /\ pc' = "done"
                /\ frame' = [NoFrame EXCEPT !.las = las, !.reports = sd.reports]
                /\ UNCHANGED <<objects, node_groups, materials, idx, midpoint_list, objs>>
           ELSE /\ meshes' = meshes + 1
                /\ reports' = reports \o sd.reports
                /\ midpoint_list' = Append(midpoint_list, midpoint)
                /\ objects' = Append(objects, obj)
                /\ objs' = Append(objs, Len(objects) + 1)
                /\ node_groups' = agn.node_groups
                /\ materials' = agn.materials
                /\ idx' = idx + 1
                /\ frame' = [valid |-> TRUE, las |-> las, xyz |-> sd.xyz, coords |-> sd.coords,
                             source_crs |-> sd.source_crs, is_fallback |-> sd.is_fallback,
                             projecter |-> sd.projecter, reports |-> sd.reports,
                             verts |-> verts, min_coords |-> min_coords,
                             max_coords |-> max_coords, midpoint |-> midpoint,
                             delta_coords |-> delta_coords, final |-> coords]
                /\ UNCHANGED <<result, exc, pc>>
    /\ UNCHANGED <<geoscn, op, parent_obj, runs, before>>

(* lines 318-342: the group anchor, parenting, scene origin *)
execute_finish ==
    /\ pc = "loop"
    /\ idx > Len(op.files)
    /\ LET midpoint_mean == np_mean(midpoint_list)
           mean   == midpoint_mean.value
           origin == IF isGeoref THEN geoscn.origin ELSE <<mean[1], mean[2]>>
       IN  IF midpoint_mean.ndim = 0
           THEN \* midpoint_mean[0] on a scalar raises IndexError
                /\ result' = "EXCEPTION"
                /\ exc' = "IndexError"
                /\ UNCHANGED <<objects, geoscn>>
           ELSE /\ objects' =
                     [i \in 1..Len(objects) |->
                        IF i = parent_obj
                        THEN [objects[i] EXCEPT
                                 !.location = <<FSub(mean[1], origin[1]),
                                                FSub(mean[2], origin[2]), mean[3]>>,
                                 !.keys = {"laz_midpoint"},
                                 !.laz_midpoint = mean]
                        ELSE IF \E j \in 1..Len(objs) : objs[j] = i
                        THEN [objects[i] EXCEPT
                                 !.parent = parent_obj,
                                 !.parent_inverse = VSub(V(0, 0, 0), mean)]
                        ELSE objects[i]]
                /\ geoscn' = [geoscn EXCEPT !.origin = origin]
                /\ result' = "FINISHED"
                /\ exc' = ""
    /\ pc' = "done"
    /\ UNCHANGED <<node_groups, materials, meshes, op, idx, parent_obj, midpoint_list,
                   objs, frame, reports, runs, before>>

Next ==
    \/ \E files \in Batches : execute_begin(files)
    \/ import_file
    \/ execute_finish

Spec == Init /\ [][Next]_vars

----------------------------------------------------------------------------
(* properties                                                               *)

Done == pc = "done"

EmbeddedMissing(las_file) == las_file.crs = "" \/ from_string(las_file.crs) = CRSError

MeshObjects == { i \in 1..Len(objects) : objects[i].type = "MESH" }

(* C1: a batch in which a file fails to open ends in a cancellation and    *)
(* leaves in the scene no object that was not there before the import: no  *)
(* per-file point cloud and no parent empty.                               *)
C1_AllOrNothing ==
    (Done /\ result = "CANCELLED") => Len(objects) = before

(* C2: for every file is_fallback is true exactly when the embedded CRS is *)
(* absent or does not parse; a valid embedded CRS is the source CRS        *)
(* returned and the fallback is not consulted (no report, no CRSError even *)
(* when the fallback does not parse); otherwise the source CRS is the      *)
(* parsed fallback.                                                        *)
C2_UsedFallbackIff ==
    /\ frame.valid =>
          /\ frame.is_fallback <=> EmbeddedMissing(frame.las)
          /\ ~EmbeddedMissing(frame.las) =>
                /\ frame.source_crs = from_string(frame.las.crs)
                /\ frame.reports = <<>>
          /\ EmbeddedMissing(frame.las) =>
                /\ frame.source_crs = from_string(op.fallbackCRS)
                /\ frame.source_crs # CRSError
          /\ objects[Len(objects)].is_fallback = frame.is_fallback
          /\ objects[Len(objects)].source_crs = crs_name(frame.source_crs)
    /\ exc = "CRSError" => EmbeddedMissing(frame.las)

(* a batch whose first file carries a CRS and whose second does not, with a *)
(* fallback that parses; and a file with a CRS imported although the        *)
(* fallback does not parse                                                  *)
C2_Witness ==
    /\ Done /\ result = "FINISHED"
    /\ Len(objs) = 2
    /\ ~objects[objs[1]].is_fallback
    /\ objects[objs[2]].is_fallback
    /\ objects[objs[2]].source_crs = "WGS 84 / Pseudo-Mercator"

(* C3: when the embedded CRS is missing and the fallback does not parse,   *)
(* the run fails with the CRS error, processes no later file, and leaves   *)
(* no partial result in the scene.                                         *)
C3_FailedIsClean ==
    (Done /\ EmbeddedMissing(frame.las) /\ frame.las.readable
          /\ from_string(op.fallbackCRS) = CRSError /\ ~frame.valid) =>
        /\ result = "EXCEPTION" /\ exc = "CRSError"
        /\ idx <= Len(op.files)
        /\ Len(objects) = before

(* C4: on an axis where the scaled bounding box has zero extent every      *)
(* point's final coordinate is 0, never NaN or Inf.                        *)
C4_DegenerateAxisIsZero ==
    (frame.valid /\ op.import_scale.n > 0) =>
        \A k \in 1..3 :
            frame.delta_coords[k] = Num(0) =>
                \A i \in 1..Len(frame.final) :
                    /\ IsFinite(frame.final[i][k])
                    /\ frame.final[i][k] = Num(0)

(* C5: an import of zero files does not finish: it fails on the mean of    *)
(* the empty midpoint list, and no group anchor is recorded on the parent, *)
(* which is never moved, nor is the scene origin set from it.              *)
C5_EmptyBatchFails ==
    (Done /\ Len(op.files) = 0) =>
        /\ result = "EXCEPTION" /\ exc = "IndexError"
        /\ result # "FINISHED"
        /\ "laz_midpoint" \notin objects[parent_obj].keys
        /\ objects[parent_obj].laz_midpoint = <<>>
        /\ objects[parent_obj].location = V(0, 0, 0)
        /\ runs = 1 => geoscn.origin = <<>>

C5_Witness ==
    /\ Done /\ Len(op.files) = 0 /\ runs = 1
    /\ exc = "IndexError"

(* the midpoint of a file from its header alone: the two header corners    *)
(* moved from the file's CRS frame to the scene's, halved sum, times scale *)
HeaderMidpoint(las_file, source, target) ==
    LET dx == FalseOrigin(source)[1] - FalseOrigin(target)[1]
        dy == FalseOrigin(source)[2] - FalseOrigin(target)[2]
        lo == VAdd(las_file.min, V(dx, dy, 0))
        hi == VAdd(las_file.max, V(dx, dy, 0))
    IN  VScale(VDivS(VAdd(lo, hi), Num(2)), op.import_scale)

SourceOf(las_file) ==
    IF EmbeddedMissing(las_file) THEN from_string(op.fallbackCRS)
    ELSE from_string(las_file.crs)

IsBox(las_file, lo, hi) == las_file.min = lo /\ las_file.max = hi

(* C6: a finished batch of N >= 1 files has N midpoints, in input order,   *)
(* each the centre of its file's reprojected header box times the scale;   *)
(* the parent's recorded anchor is their componentwise mean. Header boxes  *)
(* [(0,0,0),(10,10,0)] and [(10,0,0),(20,10,0)], source CRS = scene CRS,   *)
(* scale 1: midpoints (5,5,0), (15,5,0), anchor (10,5,0).                  *)
C6_MidpointsAndAnchor ==
    (Done /\ result = "FINISHED") =>
        LET N == Len(op.files)
        IN  /\ N >= 1
            /\ Len(midpoint_list) = N
            /\ Len(objs) = N
            /\ \A i \in 1..N :
                  /\ midpoint_list[i] =
                        HeaderMidpoint(op.files[i], SourceOf(op.files[i]),
                                       from_string(geoscn.crs))
                  /\ objects[objs[i]].laz_midpoint = midpoint_list[i]
            /\ VScale(objects[parent_obj].laz_midpoint, Num(N)) = VSum(midpoint_list)
            /\ (/\ N = 2
                /\ IsBox(op.files[1], V(0, 0, 0), V(10, 10, 0))
                /\ IsBox(op.files[2], V(10, 0, 0), V(20, 10, 0))
                /\ SourceOf(op.files[1]) = from_string(geoscn.crs)
                /\ SourceOf(op.files[2]) = from_string(geoscn.crs)
                /\ op.import_scale = Num(1))
               => /\ midpoint_list = <<V(5, 5, 0), V(15, 5, 0)>>
                  /\ objects[parent_obj].laz_midpoint = V(10, 5, 0)

C6_Witness ==
    /\ Done /\ result = "FINISHED"
    /\ midpoint_list = <<V(5, 5, 0), V(15, 5, 0)>>
    /\ objects[parent_obj].laz_midpoint = V(10, 5, 0)
    /\ op.import_scale = Num(1)

(* C7: when the scaled bounding box has nonzero extent on all three axes,  *)
(* every final point plus the file's midpoint is the reprojected point     *)
(* times the scale; the object holds exactly these points and midpoint.    *)
C7_CentreIsReversible ==
    (frame.valid /\ \A k \in 1..3 : frame.delta_coords[k] # Num(0)) =>
        LET obj == objects[Len(objects)]
        IN  /\ Len(obj.data) = Len(frame.xyz)
            /\ obj.location = frame.midpoint
            /\ \A i \in 1..Len(obj.data) :
                  VAdd(obj.data[i], obj.location) = VScale(frame.xyz[i], op.import_scale)

(* a file with extent on x, y and z, scaled by 2, including a point that   *)
(* lies outside the header's box                                           *)
C7_Witness ==
    /\ frame.valid
    /\ \A k \in 1..3 : frame.delta_coords[k] # Num(0)
    /\ op.import_scale = Num(2)
    /\ Len(frame.final) = 3
    /\ frame.final[3][1] = Num(6)

(* C8: reprojection keeps the number and order of the points and the z of  *)
(* every point and of both header corners; the x, y of the points and of   *)
(* both corners are those of the one transformer built for the file's      *)
(* (source CRS, target CRS) pair.                                          *)
C8_ReprojectPlanar ==
    frame.valid =>
        LET las == frame.las
            t   == Transformer_from_crs(frame.source_crs, from_string(geoscn.crs))
            same(p, q) == /\ q[3] = p[3]
                          /\ <<q[1], q[2]>> = transform(t, p[1], p[2])
        IN  /\ frame.projecter = t
            /\ Len(frame.xyz) = Len(las.xyz)
            /\ \A i \in 1..Len(las.xyz) : same(las.xyz[i], frame.xyz[i])
            /\ same(las.min, frame.coords[1])
            /\ same(las.max, frame.coords[2])

(* a file reprojected between two different CRS *)
C8_Witness ==
    /\ frame.valid
    /\ frame.source_crs # from_string(geoscn.crs)
    /\ Len(frame.xyz) >= 2
    /\ frame.xyz[1][1] # frame.las.xyz[1][1]

(* C9: a file resolved through the fallback gets exactly one notification, *)
(* of warning level, naming the fallback CRS; a file with an embedded CRS  *)
(* gets none; the fallback is never reported as an error.                  *)
C9_FallbackIsWarning ==
    frame.valid =>
        /\ frame.is_fallback =>
              /\ Len(frame.reports) = 1
              /\ frame.reports[1].type = "WARNING"
              /\ frame.reports[1].arg = op.fallbackCRS
        /\ ~frame.is_fallback => frame.reports = <<>>
        /\ \A i \in 1..Len(frame.reports) : frame.reports[i].type # "ERROR"

(* C10: there is at most one node group named "Point Cloud Visualisation   *)
(* Node", none is created while one exists, and every imported point cloud *)
(* has exactly one modifier, whose node group is that group.               *)
C10_OneSharedNodeGroup ==
    /\ Cardinality(GroupNamed(node_groups, node_group_name)) <= 1
    /\ Len(node_groups) <= 1
    /\ \A i \in MeshObjects :
          /\ Len(objects[i].modifiers) = 1
          /\ objects[i].modifiers[1].node_group \in GroupNamed(node_groups, node_group_name)
    /\ \A i \in 1..Len(objects) :
          objects[i].type = "EMPTY" => objects[i].modifiers = <<>>

(* point clouds imported by two different runs share the group *)
C10_Witness ==
    /\ Done
    /\ \E i, j \in MeshObjects : objects[i].run = 1 /\ objects[j].run = 2
    /\ Len(node_groups) = 1

(* C11: new_pointcloud_material returns the 'M_PointCloud' material both   *)
(* when it exists and when it is newly created, so the Set Material node   *)
(* of every visualisation node group references that material, never None. *)
C11_SetMaterialIsPointCloud ==
    \A i \in 1..Len(node_groups) :
        /\ node_groups[i].set_material # ""
        /\ node_groups[i].set_material = material_id
        /\ material_id \in materials
====
